---- MODULE Spec2Model ----
(***************************************************************************)
(* sftp-sync-deploy (src/index.js): SftpDeploy reconciles a local          *)
(* directory tree with a remote tree over one SFTP session.                *)
(*                                                                         *)
(* A step of the model is one callback of the event loop (connection       *)
(* ready, client.sftp, readdir, stat, unlink, rmdir, fastPut) together     *)
(* with every promise reaction it triggers before the next callback runs.  *)
(* Promise states of sync()/removeRemote()/upload() calls are functions of *)
(* the recorded positions of the calls.                                    *)
(***************************************************************************)
EXTENDS Integers, Sequences, FiniteSets, TLC

\* ---------------------------------------------------------------- bounds
\* Total number of entries of the local and the remote tree together.
MaxNodes == 3
\* Number of remote operations the transport may fail by itself in a behaviour.
MaxFail == 1
\* Number of excluded match strings.
MaxExclude == 1

Names == {"a", "b"}
Kinds == {"file", "dir"}

\* ---------------------------------------------------------------- paths and trees
\* A path is the sequence of file names below the root; the root is <<>>.
Root == <<>>

Parent(q) == SubSeq(q, 1, Len(q) - 1)

IsUnder(q, p) == Len(q) >= Len(p) /\ SubSeq(q, 1, Len(p)) = p

\* A tree is a function from the paths that exist to their kind.
RootOnly == (Root :> "dir")

NoTree == [q \in {} |-> "dir"]

Exists(t, q) == q \in DOMAIN t

IsDir(t, q) == q \in DOMAIN t /\ t[q] = "dir"

Kids(t, p) == {q \in DOMAIN t : Len(q) = Len(p) + 1 /\ Parent(q) = p}

Without(t, q) == [x \in DOMAIN t \ {q} |-> t[x]]

With(t, q, k) == [x \in DOMAIN t \cup {q} |-> IF x = q THEN k ELSE t[x]]

Size(t) == Cardinality(DOMAIN t \ {Root})

Grow(t) ==
  UNION {{With(t, Append(p, n), k) : n \in {m \in Names : ~Exists(t, Append(p, m))}, k \in Kinds}
         : p \in {d \in DOMAIN t : t[d] = "dir"}}

TreesOfSize[n \in 0..(MaxNodes + 1)] ==
  IF n = 0 THEN {RootOnly} ELSE UNION {Grow(t) : t \in TreesOfSize[n - 1]}

Trees(n) == UNION {TreesOfSize[k] : k \in 0..n}

\* ---------------------------------------------------------------- state
VARIABLES
  local,         \* the local tree below config.localDir (never changes)
  exclude,       \* options.exclude, as the set of match strings the patterns accept
  dryRun,        \* options.dryRun
  remote,        \* the remote tree below config.remoteDir
  remote0,       \* the remote tree when the current run started
  run,           \* 1 for the first deploy(), 2 for a second deploy() after it
  conn,          \* this.client: "connecting", "ready", "error", "ended"
  sftp,          \* this.sftp: 0 when undefined, else the handle
  startPromise,  \* the promise start() returned: "pending", "resolved", "rejected"
  fails,         \* failures the transport has injected so far
  sy,            \* sync(p) calls: path -> position
  proj,          \* project entries: path -> [local, remote] in the map of its parent's level
  pend,          \* paths whose buildProject stat is in flight
  rm,            \* removeRemote(q) calls: path -> position
  up,            \* upload(q) calls: path -> position
  issued,        \* <<operation, path>> -> number of times it was called or sent
  neg,           \* number of client.sftp() negotiations of the run
  handed,        \* the handles getSftp() has given to its callers in the run
  listed,        \* path -> how the readdir of buildProject(path) ended
  prev           \* what the preview run before this run ended with and reported

vars == <<local, exclude, dryRun, remote, remote0, run, conn, sftp, startPromise, fails,
          sy, proj, pend, rm, up, issued, neg, handed, listed, prev>>

\* The part of the state the calls of one step rewrite, as a record.
Cur == [sy |-> sy, proj |-> proj, pend |-> pend, rm |-> rm, up |-> up,
        issued |-> issued, neg |-> neg, handed |-> handed, listed |-> listed]

Fresh == [sy |-> NoTree, proj |-> NoTree, pend |-> {}, rm |-> NoTree, up |-> NoTree,
          issued |-> NoTree, neg |-> 0, handed |-> {}, listed |-> NoTree]

Assign(s) ==
  /\ sy' = s.sy
  /\ proj' = s.proj
  /\ pend' = s.pend
  /\ rm' = s.rm
  /\ up' = s.up
  /\ issued' = s.issued
  /\ neg' = s.neg
  /\ handed' = s.handed
  /\ listed' = s.listed

PutAll(f, K, v) == [x \in DOMAIN f \cup K |-> IF x \in K THEN v ELSE f[x]]

Count(b, k) == IF k \in DOMAIN b THEN b[k] ELSE 0

BumpAll(b, K) == [k \in DOMAIN b \cup K |-> Count(b, k) + (IF k \in K THEN 1 ELSE 0)]

Log(s, op, S) == [s EXCEPT !.issued = BumpAll(@, {<<op, q>> : q \in S})]

\* ---------------------------------------------------------------- exclusion
\* isIgnored: the path relative to localDir, with "/" appended for a directory,
\* is matched against the patterns.
isIgnored(q, isDir) == <<q, isDir>> \in exclude

LocalStatusNoIgnore(q) == IF local[q] = "dir" THEN "dir" ELSE "file"

\* buildProject's local status of a local entry.
LocalStatus(q) ==
  IF isIgnored(q, local[q] = "dir") THEN "ignored"
  ELSE IF local[q] = "dir" THEN "dir" ELSE "file"

\* ---------------------------------------------------------------- classification
\* util.getTask(stats): the task of an entry.
getTask(stats) ==
  CASE stats.local = "ignored" -> [method |-> "noop", removeRemote |-> FALSE]
    [] stats.local = "null"    -> [method |-> "noop", removeRemote |-> TRUE]
    [] stats.local = "file"    -> [method |-> "upload", removeRemote |-> stats.remote = "dir"]
    [] stats.local = "dir"     -> [method |-> "sync", removeRemote |-> stats.remote = "file"]

Entries(s, p) == {q \in DOMAIN s.proj : Len(q) = Len(p) + 1 /\ Parent(q) = p}

TaskOf(s, q) == getTask(s.proj[q])

\* ---------------------------------------------------------------- session
\* getSftp: the cached handle when there is one, else a negotiation.
FirstPc(io) == IF sftp # 0 THEN io ELSE "sftp"

StoreNothing(h) == 0

\* What SftpCb leaves in this.sftp.
StoreSftp(h) == h

\* n callers call getSftp() in this step.
GetSftp(s, n) ==
  IF n = 0 THEN s
  ELSE IF sftp # 0 THEN [s EXCEPT !.handed = @ \cup {sftp}]
  ELSE [s EXCEPT !.neg = @ + n]

\* The remote request a call sends once it holds the handle.
Request(kind, q) ==
  CASE kind = "sync"   -> "readdir"
    [] kind = "remove" -> "stat"
    [] kind = "upload" -> IF local[q] = "dir" THEN "mkdir" ELSE "fastPut"

Send(s, kind, S) ==
  IF sftp # 0
  THEN [s EXCEPT !.issued = BumpAll(@, {<<Request(kind, q), q>> : q \in S})]
  ELSE s

CallName(kind) ==
  CASE kind = "sync" -> "sync" [] kind = "remove" -> "removeRemote" [] kind = "upload" -> "upload"

PcOf(s, kind) == CASE kind = "sync" -> s.sy [] kind = "remove" -> s.rm [] kind = "upload" -> s.up

SetPc(s, kind, S, v) ==
  CASE kind = "sync"   -> [s EXCEPT !.sy = PutAll(@, S, v)]
    [] kind = "remove" -> [s EXCEPT !.rm = PutAll(@, S, v)]
    [] kind = "upload" -> [s EXCEPT !.up = PutAll(@, S, v)]

\* The calls kind(q), q in S, up to the point where each waits for a callback.
Call(s, kind, S) ==
  LET s1 == Send(GetSftp(Log(s, CallName(kind), S), Cardinality(S)), kind, S)
  IN [s1 EXCEPT
        !.sy = IF kind = "sync"
               THEN [q \in DOMAIN @ \cup S |-> IF q \in S THEN FirstPc(Request(kind, q)) ELSE @[q]]
               ELSE @,
        !.rm = IF kind = "remove"
               THEN [q \in DOMAIN @ \cup S |-> IF q \in S THEN FirstPc(Request(kind, q)) ELSE @[q]]
               ELSE @,
        !.up = IF kind = "upload"
               THEN [q \in DOMAIN @ \cup S |-> IF q \in S THEN FirstPc(Request(kind, q)) ELSE @[q]]
               ELSE @]

\* ---------------------------------------------------------------- buildProject, local half
\* The project map of level p gets one entry per local name, remote still null.
LocalEntries(s, S) ==
  LET kids == UNION {Kids(local, p) : p \in S}
  IN [s EXCEPT !.proj = [c \in DOMAIN @ \cup kids |->
                           IF c \in kids THEN [local |-> LocalStatus(c), remote |-> "null"]
                           ELSE @[c]]]

\* sync(p) for p in S: buildProject lists the local directory and asks for the handle.
StartSync(s, S) == Call(LocalEntries(s, S), "sync", S)

StartUpload(s, S) == Call(s, "upload", S)

StartRemove(s, S) == Call(s, "remove", S)

\* this[task.method].apply(this, args) for the entries S.
StartMethods(s, S) ==
  StartSync(StartUpload(s, {q \in S : TaskOf(s, q).method = "upload"}),
            {q \in S : TaskOf(s, q).method = "sync"})

\* The entries of level p that sync() pushes an operation for.
Ops(s, p) ==
  IF dryRun
  THEN {q \in Entries(s, p) : TaskOf(s, q).method = "sync" \/ s.proj[q].local = "dir"}
  ELSE Entries(s, p)

NoPreRemove(s, q) == FALSE

\* Whether sync() calls removeRemote before the method of entry q.
PreRemove(s, q) == TaskOf(s, q).removeRemote

PerformEager(s, p) ==
  StartRemove(StartMethods(s, Entries(s, p)), {q \in Entries(s, p) : PreRemove(s, q)})

\* The non-preview branch of project.forEach: removeRemote first where the task
\* asks for it, the method at once where it does not.
Perform(s, p) ==
  LET R == {q \in Entries(s, p) : PreRemove(s, q)}
  IN StartRemove(StartMethods(s, Entries(s, p) \ R), R)

PerformInPreview(s, p) == Perform(s, p)

PreviewNoRecurse(s, p) == s

\* The dryRun branch of project.forEach: report, and recurse into directories.
Preview(s, p) == StartSync(s, Ops(s, p))

\* project.forEach of sync(p), once buildProject(p) has resolved.
Execute(s, p) ==
  LET s1 == [s EXCEPT !.sy[p] = "ops"]
  IN IF dryRun THEN Preview(s1, p) ELSE Perform(s1, p)

\* ---------------------------------------------------------------- promise states
RmState(s, q) ==
  IF q \notin DOMAIN s.rm THEN "pending"
  ELSE CASE s.rm[q] = "done" -> "resolved"
         [] s.rm[q] = "rejected" -> "rejected"
         [] OTHER -> "pending"

UpKids(s, p) == {c \in DOMAIN s.up : Len(c) = Len(p) + 1 /\ Parent(c) = p}

RECURSIVE UpState(_, _)
UpState(s, q) ==
  IF q \notin DOMAIN s.up THEN "pending"
  ELSE CASE s.up[q] = "done" -> "resolved"
         [] s.up[q] = "rejected" -> "rejected"
         [] s.up[q] = "children" ->
              IF \A c \in UpKids(s, q) : UpState(s, c) = "resolved" THEN "resolved" ELSE "pending"
         [] OTHER -> "pending"

OpStateNoWait(s, q) == "resolved"

RECURSIVE SyncState(_, _)
\* The promise sync() pushed for entry q: preMethod.then(() => method).
OpState(s, q) ==
  IF dryRun THEN SyncState(s, q)
  ELSE LET pre == IF PreRemove(s, q) THEN RmState(s, q) ELSE "resolved"
           m == TaskOf(s, q).method
       IN IF pre # "resolved" THEN pre
          ELSE CASE m = "noop" -> "resolved"
                 [] m = "upload" -> UpState(s, q)
                 [] m = "sync" -> SyncState(s, q)

\* The promise sync(p) returned.
SyncState(s, p) ==
  IF p \notin DOMAIN s.sy THEN "pending"
  ELSE CASE s.sy[p] = "rejected" -> "rejected"
         [] s.sy[p] = "ops" ->
              IF \E q \in Ops(s, p) : OpState(s, q) = "rejected" THEN "rejected"
              ELSE IF \A q \in Ops(s, p) : OpState(s, q) = "resolved" THEN "resolved"
              ELSE "pending"
         [] OTHER -> "pending"

\* ---------------------------------------------------------------- the SFTP server
StatOk(q) == Exists(remote, q)

\* readdir of a directory lists it; of a missing path it fails with code 2
\* ("enoent"); of a file it fails, with code 2 or another code as the server chooses.
ReaddirResults(p) ==
  IF IsDir(remote, p) THEN {"list"}
  ELSE IF ~Exists(remote, p) THEN {"enoent"}
  ELSE {"enoent", "error"}

UnlinkOk(q) == Exists(remote, q) /\ remote[q] = "file"

RmdirOk(q) == IsDir(remote, q) /\ Kids(remote, q) = {}

PutOk(q) == IsDir(remote, Parent(q)) /\ ~IsDir(remote, q)

MkdirOk(q) == IsDir(remote, Parent(q)) /\ ~Exists(remote, q)

\* The outcomes of a request that would succeed iff natural: the transport may fail it.
Outcomes(natural) ==
  IF ~natural THEN {FALSE}
  ELSE IF fails < MaxFail THEN {TRUE, FALSE} ELSE {TRUE}

Charge(natural, ok) ==
  fails' = IF natural /\ ~ok THEN fails + 1 ELSE fails

\* ---------------------------------------------------------------- Init
\* The match strings isIgnored can be asked about: the local entries, a directory
\* with its trailing "/".
MatchStrings(l) == {<<q, l[q] = "dir">> : q \in DOMAIN l \ {Root}}

ExcludeSets(l) == {E \in SUBSET MatchStrings(l) : Cardinality(E) <= MaxExclude}

\* Names are interchangeable: in every directory "b" is used only beside "a".
Canonical(l, r) ==
  \A q \in DOMAIN l \cup DOMAIN r :
    (q # Root /\ q[Len(q)] = "b") =>
      Append(Parent(q), "a") \in DOMAIN l \cup DOMAIN r

NoPreview == [result |-> "none", tasks |-> NoTree]

Init ==
  /\ local \in Trees(MaxNodes)
  /\ remote \in {NoTree} \cup Trees(MaxNodes - Size(local))
  /\ Canonical(local, remote)
  /\ remote0 = remote
  /\ exclude \in ExcludeSets(local)
  /\ dryRun \in BOOLEAN
  /\ run = 1
  /\ conn = "connecting"
  /\ sftp = 0
  /\ startPromise = "pending"
  /\ fails = 0
  /\ sy = NoTree /\ proj = NoTree /\ pend = {} /\ rm = NoTree /\ up = NoTree
  /\ issued = NoTree /\ neg = 0 /\ handed = {} /\ listed = NoTree
  /\ prev = NoPreview

\* ---------------------------------------------------------------- start()
\* The reactions of start() that are due: they run before any further callback.
Microtask == conn = "ready" /\ SyncState(Cur, Root) # "pending"

\* Callbacks are delivered while the client is connected and no reaction is due.
Live == conn = "ready" /\ ~Microtask

\* client 'ready': this.sync(this.localDir, this.remoteDir).
Ready ==
  /\ conn = "connecting"
  /\ conn' = "ready"
  /\ Assign(StartSync(Cur, {Root}))
  /\ UNCHANGED <<local, exclude, prev, dryRun, remote, remote0, run, sftp, startPromise, fails>>

\* client 'error' while connecting: reject(err). sync() is never called and
\* client.end() is not called.
ConnectError ==
  /\ conn = "connecting"
  /\ conn' = "error"
  /\ startPromise' = "rejected"
  /\ UNCHANGED <<local, exclude, prev, dryRun, remote, remote0, run, sftp, fails,
                 sy, proj, pend, rm, up, issued, neg, handed, listed>>

\* .then(() => resolve(true)).catch(err => reject(err))
SyncThen ==
  /\ conn = "ready"
  /\ startPromise = "pending"
  /\ SyncState(Cur, Root) # "pending"
  /\ startPromise' = SyncState(Cur, Root)
  /\ UNCHANGED <<local, exclude, prev, dryRun, remote, remote0, run, conn, sftp, fails,
                 sy, proj, pend, rm, up, issued, neg, handed, listed>>

EndAtOnce == TRUE

\* When start() calls this.client.end().
EndDue == startPromise # "pending"

\* .then(() => this.client.end())
ClientEnd ==
  /\ conn = "ready"
  /\ EndDue
  /\ conn' = "ended"
  /\ UNCHANGED <<local, exclude, prev, dryRun, remote, remote0, run, sftp, startPromise, fails,
                 sy, proj, pend, rm, up, issued, neg, handed, listed>>

\* A second deploy() of the same local tree after a run that mutated the remote.
Restart ==
  /\ run = 1 /\ ~dryRun
  /\ conn = "ended" /\ startPromise = "resolved"
  /\ run' = 2
  /\ conn' = "connecting"
  /\ sftp' = 0
  /\ startPromise' = "pending"
  /\ remote0' = remote
  /\ Assign(Fresh)
  /\ UNCHANGED <<local, exclude, prev, dryRun, remote, fails>>

\* A non-preview deploy() of the same trees after a preview that met no
\* transport failure: what the preview ended with and reported is kept in prev.
RunForReal ==
  /\ run = 1 /\ dryRun /\ fails = 0
  /\ conn = "ended"
  /\ run' = 3
  /\ dryRun' = FALSE
  /\ conn' = "connecting"
  /\ sftp' = 0
  /\ startPromise' = "pending"
  /\ remote0' = remote
  /\ prev' = [result |-> startPromise,
              tasks |-> [q \in {c \in DOMAIN proj :
                                 Parent(c) \in DOMAIN sy /\ sy[Parent(c)] = "ops"}
                           |-> TaskOf(Cur, q)]]
  /\ Assign(Fresh)
  /\ UNCHANGED <<local, exclude, remote, fails>>

\* ---------------------------------------------------------------- getSftp
\* The callback of client.sftp() for the caller kind(q).
SftpCb(kind, q) ==
  /\ Live
  /\ q \in DOMAIN PcOf(Cur, kind) /\ PcOf(Cur, kind)[q] = "sftp"
  /\ \E ok \in Outcomes(TRUE) :
       /\ Charge(TRUE, ok)
       /\ IF ok
          THEN LET h == Cardinality(handed) + 1
                   s1 == [Cur EXCEPT !.handed = @ \cup {h},
                                     !.issued = BumpAll(@, {<<Request(kind, q), q>>})]
               IN /\ sftp' = StoreSftp(h)
                  /\ Assign(SetPc(s1, kind, {q}, Request(kind, q)))
          ELSE /\ sftp' = sftp
               /\ Assign(SetPc(Cur, kind, {q}, "hung"))
  /\ UNCHANGED <<local, exclude, prev, dryRun, remote, remote0, run, conn, startPromise>>

\* ---------------------------------------------------------------- buildProject, remote half
ListFailedAlwaysRejects(s, p, r) == [s EXCEPT !.sy[p] = "rejected"]

\* if (err) of the readdir callback: code 2 resolves the project as it is, any
\* other error rejects.
ListFailed(s, p, r) ==
  IF r = "enoent" THEN Execute(s, p) ELSE [s EXCEPT !.sy[p] = "rejected"]

\* The callback of sftp.readdir(remotePath) in buildProject(p).
ReaddirCb(p) ==
  /\ Live
  /\ p \in DOMAIN sy /\ sy[p] = "readdir"
  /\ LET natural == ReaddirResults(p)
         results == natural \cup (IF fails < MaxFail THEN {"error"} ELSE {})
     IN \E r \in results :
          /\ fails' = IF r = "error" /\ r \notin natural THEN fails + 1 ELSE fails
          /\ LET s0 == [Cur EXCEPT !.listed = With(@, p, r)]
                 K == Kids(remote, p)
             IN IF r # "list" THEN Assign(ListFailed(s0, p, r))
                ELSE IF K = {} THEN Assign(Execute(s0, p))
                ELSE Assign(Log([s0 EXCEPT !.sy[p] = "stat", !.pend = @ \cup K], "stat", K))
  /\ UNCHANGED <<local, exclude, prev, dryRun, remote, remote0, run, conn, sftp, startPromise>>

StatTypeSwapped(q) == IF remote[q] = "dir" THEN "file" ELSE "dir"

\* The remote type buildProject derives from a stat.
StatType(q) == IF remote[q] = "dir" THEN "dir" ELSE "file"

\* The callback of sftp.stat(remotePath + '/' + file.filename) in buildProject.
StatCb(q) ==
  /\ Live
  /\ q \in pend
  /\ LET p == Parent(q)
     IN \E ok \in Outcomes(StatOk(q)) :
          /\ Charge(StatOk(q), ok)
          /\ IF ok
             THEN LET s1 == [Cur EXCEPT
                               !.pend = @ \ {q},
                               !.proj = [c \in DOMAIN @ \cup {q} |->
                                           IF c # q THEN @[c]
                                           ELSE IF q \in DOMAIN @
                                                THEN [local |-> @[q].local, remote |-> StatType(q)]
                                                ELSE [local |-> "null", remote |-> StatType(q)]]]
                  IN IF s1.sy[p] = "stat" /\ \A c \in s1.pend : Parent(c) # p
                     THEN Assign(Execute(s1, p))
                     ELSE Assign(s1)
             ELSE Assign([Cur EXCEPT !.pend = @ \ {q},
                                     !.sy[p] = IF @ = "stat" THEN "rejected" ELSE @])
  /\ UNCHANGED <<local, exclude, prev, dryRun, remote, remote0, run, conn, sftp, startPromise>>

\* ---------------------------------------------------------------- removeRemote
RmKids(s, p) == {c \in DOMAIN s.rm : Len(c) = Len(p) + 1 /\ Parent(c) = p}

\* removeRemote(q) was called by removeRemote(Parent(q)), not by sync().
IsChildRemove(s, q) == q # Root /\ Parent(q) \in DOMAIN s.rm

\* reject(err) in removeRemote(q). A parent removeRemote waits with
\* Promise.all(children).then(...) and no rejection handler: it never settles ("hung").
RmReject(s, q) ==
  LET s1 == [s EXCEPT !.rm[q] = "rejected"]
  IN IF IsChildRemove(s1, q) /\ s1.rm[Parent(q)] = "children"
     THEN [s1 EXCEPT !.rm[Parent(q)] = "hung"]
     ELSE s1

RmResolveFirst(s, q) ==
  LET s1 == [s EXCEPT !.rm[q] = "done"]
      P == Parent(q)
  IN IF IsChildRemove(s1, q)
     THEN IF s1.rm[P] = "children"
          THEN Log([s1 EXCEPT !.rm[P] = "rmdir"], "rmdir", {P})
          ELSE s1
     ELSE StartMethods(s1, {q})

\* resolve() in removeRemote(q), and what waits for it.
RmResolve(s, q) ==
  LET s1 == [s EXCEPT !.rm[q] = "done"]
      P == Parent(q)
  IN IF IsChildRemove(s1, q)
     THEN IF s1.rm[P] = "children" /\ \A c \in RmKids(s1, P) : s1.rm[c] = "done"
          THEN Log([s1 EXCEPT !.rm[P] = "rmdir"], "rmdir", {P})
          ELSE s1
     ELSE StartMethods(s1, {q})

\* The callback of sftp.stat(remotePath) in removeRemote(q).
RmStatCb(q) ==
  /\ Live
  /\ q \in DOMAIN rm /\ rm[q] = "stat"
  /\ \E ok \in Outcomes(StatOk(q)) :
       /\ Charge(StatOk(q), ok)
       /\ IF ok
          THEN IF remote[q] = "dir"
               THEN Assign(Log([Cur EXCEPT !.rm[q] = "readdir"], "readdir", {q}))
               ELSE Assign(Log([Cur EXCEPT !.rm[q] = "unlink"], "unlink", {q}))
          ELSE Assign(RmReject(Cur, q))
  /\ UNCHANGED <<local, exclude, prev, dryRun, remote, remote0, run, conn, sftp, startPromise>>

\* The callback of sftp.readdir(remotePath) in removeRemote(q).
RmReaddirCb(q) ==
  /\ Live
  /\ q \in DOMAIN rm /\ rm[q] = "readdir"
  /\ \E ok \in Outcomes(IsDir(remote, q)) :
       /\ Charge(IsDir(remote, q), ok)
       /\ IF ok
          THEN LET K == Kids(remote, q)
               IN IF K = {}
                  THEN Assign(Log([Cur EXCEPT !.rm[q] = "rmdir"], "rmdir", {q}))
                  ELSE Assign(StartRemove([Cur EXCEPT !.rm[q] = "children"], K))
          ELSE Assign(RmReject(Cur, q))
  /\ UNCHANGED <<local, exclude, prev, dryRun, remote, remote0, run, conn, sftp, startPromise>>

\* The callback of sftp.unlink(remotePath).
UnlinkCb(q) ==
  /\ Live
  /\ q \in DOMAIN rm /\ rm[q] = "unlink"
  /\ \E ok \in Outcomes(UnlinkOk(q)) :
       /\ Charge(UnlinkOk(q), ok)
       /\ IF ok
          THEN /\ remote' = Without(remote, q)
               /\ Assign(RmResolve(Cur, q))
          ELSE /\ remote' = remote
               /\ Assign(RmReject(Cur, q))
  /\ UNCHANGED <<local, exclude, prev, dryRun, remote0, run, conn, sftp, startPromise>>

\* The callback of sftp.rmdir(remotePath).
RmdirCb(q) ==
  /\ Live
  /\ q \in DOMAIN rm /\ rm[q] = "rmdir"
  /\ \E ok \in Outcomes(RmdirOk(q)) :
       /\ Charge(RmdirOk(q), ok)
       /\ IF ok
          THEN /\ remote' = Without(remote, q)
               /\ Assign(RmResolve(Cur, q))
          ELSE /\ remote' = remote
               /\ Assign(RmReject(Cur, q))
  /\ UNCHANGED <<local, exclude, prev, dryRun, remote0, run, conn, sftp, startPromise>>

\* ---------------------------------------------------------------- upload
\* The callback of sftp.fastPut(localPath, remotePath).
FastPutCb(q) ==
  /\ Live
  /\ q \in DOMAIN up /\ up[q] = "fastPut"
  /\ \E ok \in Outcomes(PutOk(q)) :
       /\ Charge(PutOk(q), ok)
       /\ IF ok
          THEN /\ remote' = With(remote, q, "file")
               /\ Assign([Cur EXCEPT !.up[q] = "done"])
          ELSE /\ remote' = remote
               /\ Assign([Cur EXCEPT !.up[q] = "rejected"])
  /\ UNCHANGED <<local, exclude, prev, dryRun, remote0, run, conn, sftp, startPromise>>

\* The callback of sftp.mkdir(remotePath) in upload(q) of a directory: the
\* children that are not ignored are uploaded.
MkdirCb(q) ==
  /\ Live
  /\ q \in DOMAIN up /\ up[q] = "mkdir"
  /\ \E ok \in Outcomes(MkdirOk(q)) :
       /\ Charge(MkdirOk(q), ok)
       /\ IF ok
          THEN /\ remote' = With(remote, q, "dir")
               /\ Assign(StartUpload([Cur EXCEPT !.up[q] = "children"],
                                     {c \in Kids(local, q) : ~isIgnored(c, local[c] = "dir")}))
          ELSE /\ remote' = remote
               /\ Assign([Cur EXCEPT !.up[q] = "rejected"])
  /\ UNCHANGED <<local, exclude, prev, dryRun, remote0, run, conn, sftp, startPromise>>

\* ---------------------------------------------------------------- specification
Paths == DOMAIN local \cup DOMAIN remote0 \cup DOMAIN remote

Next ==
  \/ Ready
  \/ ConnectError
  \/ SyncThen
  \/ ClientEnd
  \/ Restart
  \/ RunForReal
  \/ \E kind \in {"sync", "remove", "upload"}, q \in Paths : SftpCb(kind, q)
  \/ \E p \in Paths : ReaddirCb(p)
  \/ \E q \in Paths : StatCb(q)
  \/ \E q \in Paths : RmStatCb(q)
  \/ \E q \in Paths : RmReaddirCb(q)
  \/ \E q \in Paths : UnlinkCb(q)
  \/ \E q \in Paths : RmdirCb(q)
  \/ \E q \in Paths : FastPutCb(q)

Spec == Init /\ [][Next]_vars

\* upload(localPath, remotePath) called on a local entry over a connected client.
\* getTask never yields upload for a directory, so Spec never reaches the mkdir
\* branch of upload; this specification does.
InitUpload ==
  /\ local \in Trees(MaxNodes) \ {RootOnly}
  /\ remote \in Trees(MaxNodes - Size(local))
  /\ Canonical(local, remote)
  /\ remote0 = remote
  /\ exclude \in ExcludeSets(local)
  /\ dryRun = FALSE
  /\ run = 1
  /\ conn = "ready"
  /\ sftp = 0
  /\ startPromise = "pending"
  /\ fails = 0
  /\ \E q \in Kids(local, Root) :
       LET s == StartUpload(Fresh, {q})
       IN /\ sy = s.sy /\ proj = s.proj /\ pend = s.pend /\ rm = s.rm /\ up = s.up
          /\ issued = s.issued /\ neg = s.neg /\ handed = s.handed /\ listed = s.listed
  /\ prev = NoPreview

NextUpload ==
  \/ \E q \in Paths : SftpCb("upload", q)
  \/ \E q \in Paths : MkdirCb(q)
  \/ \E q \in Paths : FastPutCb(q)

SpecUpload == InitUpload /\ [][NextUpload]_vars

\* ---------------------------------------------------------------- vocabulary of the claims
\* Entry q has been classified: the level of its parent ran project.forEach.
Classified(q) == q \in DOMAIN proj /\ Parent(q) \in DOMAIN sy /\ sy[Parent(q)] = "ops"

Mutations == {"upload", "removeRemote", "fastPut", "mkdir", "rmdir", "unlink"}

\* q is a local entry that is excluded, or lies beneath one.
Excluded(q) ==
  \E n \in 1..Len(q) :
    LET a == SubSeq(q, 1, n) IN a \in DOMAIN local /\ isIgnored(a, local[a] = "dir")

Converged ==
  /\ \A q \in DOMAIN local \ {Root} :
       ~Excluded(q) => (q \in DOMAIN remote /\ remote[q] = local[q])
  /\ \A q \in DOMAIN remote \ {Root} :
       ~Excluded(q) => q \in DOMAIN local

\* Some call of the run has rejected.
Failed ==
  \/ \E q \in DOMAIN sy : sy[q] = "rejected"
  \/ \E q \in DOMAIN rm : rm[q] = "rejected"
  \/ \E q \in DOMAIN up : up[q] = "rejected"

\* ---------------------------------------------------------------- claims
\* C1: when a non-preview run resolves, the remote tree matches the local tree
\* modulo exclusions: every non-excluded local entry exists remotely with its type
\* and no remote entry remains that is absent locally (stated for the runs whose
\* remote root directory exists).
C1_Convergence ==
  (startPromise = "resolved" /\ ~dryRun /\ Root \in DOMAIN remote0) => Converged

\* C2: in a preview run only sync(), readdir and stat are ever called; the remote
\* tree stays as it was when the run started.
C2_PreviewNoMutation ==
  dryRun => (remote = remote0 /\ \A k \in DOMAIN issued : k[1] \notin Mutations)

C2_Witness ==
  /\ dryRun /\ conn = "ended" /\ startPromise = "resolved"
  /\ \E q \in DOMAIN proj : Len(q) = 2 /\ Classified(q) /\ TaskOf(Cur, q).removeRemote
  /\ \E k \in DOMAIN issued : k[1] = "stat"

\* C3: in a non-preview run the method of an entry whose task asks for the removal
\* is called only after removeRemote of the entry, and of every remote descendant,
\* has resolved and the descendants are gone; after a failed removal it is not called.
C3_RemovalFirst ==
  ~dryRun =>
    \A q \in DOMAIN proj :
      (Classified(q) /\ TaskOf(Cur, q).removeRemote /\ (q \in DOMAIN up \/ q \in DOMAIN sy)) =>
        /\ q \in DOMAIN rm /\ rm[q] = "done"
        /\ \A c \in DOMAIN rm : IsUnder(c, q) => rm[c] = "done"
        /\ \A c \in DOMAIN remote0 : (IsUnder(c, q) /\ c # q) => c \notin DOMAIN remote
        /\ Count(issued, <<"upload", q>>) + Count(issued, <<"sync", q>>) = 1

C3_Witness ==
  /\ ~dryRun
  /\ \E q \in DOMAIN proj :
       /\ Classified(q) /\ TaskOf(Cur, q).removeRemote
       /\ q \in DOMAIN up
       /\ \E c \in DOMAIN rm : c # q /\ IsUnder(c, q) /\ rm[c] = "done"

\* C4: a failure of any call at any depth rejects the run: once a call has rejected
\* and the reactions have run, the promise of start() is rejected.
C4_FailureRejectsRun == (Failed /\ ~Microtask) => startPromise = "rejected"

\* C5: client.sftp() is negotiated at most once in a run and every caller of
\* getSftp() gets the same handle.
C5_OneSession == neg <= 1 /\ Cardinality(handed) <= 1

C5_Witness ==
  /\ neg = 1 /\ handed = {1}
  /\ \E q \in DOMAIN rm : rm[q] # "sftp"
  /\ \E q \in DOMAIN up : up[q] # "sftp"
  /\ \E q \in DOMAIN sy : q # Root /\ sy[q] # "sftp"

\* C6: client.end() is called only after the promise of the top-level sync() has
\* settled and start() has resolved or rejected accordingly, and once that promise
\* has settled, resolved or rejected, start() goes on to call it.
C6_EndAfterSettle ==
  /\ conn = "ended" => (SyncState(Cur, Root) # "pending" /\ startPromise = SyncState(Cur, Root))
  /\ (conn = "ready" /\ SyncState(Cur, Root) # "pending") => ENABLED (SyncThen \/ ClientEnd)

C6_Witness == conn = "ended" /\ SyncState(Cur, Root) = "rejected" /\ Failed

\* C7 as stated: on a second run after a completed first run every classified
\* entry is noop without removal.
C7_SecondRunAllNoop ==
  run = 2 =>
    \A q \in DOMAIN proj :
      Classified(q) => TaskOf(Cur, q) = [method |-> "noop", removeRemote |-> FALSE]

\* C7 as amended: on a second run after a completed first run no entry asks for a
\* removal and none is made; ignored entries are noop, files are uploaded again and
\* directories synced again, and the remote tree stays as the first run left it.
C7_SecondRunNoRemoval ==
  run = 2 =>
    /\ \A q \in DOMAIN proj :
         Classified(q) =>
           /\ ~TaskOf(Cur, q).removeRemote
           /\ proj[q].local # "null"
           /\ TaskOf(Cur, q).method =
                (CASE proj[q].local = "ignored" -> "noop"
                   [] proj[q].local = "file" -> "upload"
                   [] proj[q].local = "dir" -> "sync")
    /\ DOMAIN rm = {}
    /\ remote = remote0

C7_Witness ==
  /\ run = 2 /\ startPromise = "resolved"
  /\ \E q \in DOMAIN up : Classified(q) /\ up[q] = "done"
  /\ \E q \in DOMAIN sy : q # Root /\ Classified(q)

\* C8: an entry whose local status is ignored is classified noop without removal,
\* and the remote entry of that name and everything beneath it stays as it was:
\* no upload, mkdir, unlink, rmdir or removal is called on it or beneath it.
C8_IgnoredUntouched ==
  \A q \in DOMAIN local \ {Root} :
    isIgnored(q, local[q] = "dir") =>
      /\ Classified(q) =>
           (proj[q].local = "ignored"
            /\ TaskOf(Cur, q) = [method |-> "noop", removeRemote |-> FALSE])
      /\ \A c \in DOMAIN remote0 \cup DOMAIN remote :
           IsUnder(c, q) => (c \in DOMAIN remote0 /\ c \in DOMAIN remote /\ remote[c] = remote0[c])
      /\ \A k \in DOMAIN issued : IsUnder(k[2], q) => k[1] \notin Mutations \cup {"sync"}

C8_Witness ==
  /\ ~dryRun /\ startPromise = "resolved"
  /\ \E q \in DOMAIN proj :
       /\ Classified(q) /\ proj[q].local = "ignored"
       /\ proj[q].remote # "null" /\ proj[q].remote # local[q]
  /\ \E k \in DOMAIN issued : k[1] = "unlink"

\* C9: an entry that exists only remotely is classified noop with removal; in a
\* non-preview run removeRemote is called exactly once for it and no upload, fastPut
\* or mkdir is called on its path or beneath it.
C9_OrphanRemoved ==
  \A q \in DOMAIN proj :
    (Classified(q) /\ proj[q].local = "null") =>
      /\ TaskOf(Cur, q) = [method |-> "noop", removeRemote |-> TRUE]
      /\ ~dryRun =>
           /\ Count(issued, <<"removeRemote", q>>) = 1
           /\ \A k \in DOMAIN issued :
                IsUnder(k[2], q) => k[1] \notin {"upload", "fastPut", "mkdir", "sync"}

C9_Witness ==
  /\ ~dryRun /\ startPromise = "resolved"
  /\ \E q \in DOMAIN proj :
       /\ Classified(q) /\ proj[q].local = "null" /\ proj[q].remote = "dir"
       /\ \E c \in DOMAIN rm : Parent(c) = q /\ rm[c] = "done"
       /\ q \notin DOMAIN remote

\* The remote status of entry q when its level was classified.
RemoteStatus0(q) == IF q \in DOMAIN remote0 THEN remote0[q] ELSE "null"

\* C10: a classified entry whose local and remote types are file against directory
\* has the removal set (local file: upload, local directory: sync); an entry with
\* the same type on both sides, or absent remotely, has it unset.
C10_TypeChangeRemoves ==
  \A q \in DOMAIN proj :
    (Classified(q) /\ proj[q].local \in {"file", "dir"}) =>
      LET l == local[q]
          r == RemoteStatus0(q)
      IN /\ proj[q].local = l
         /\ (l = "file" /\ r = "dir") => TaskOf(Cur, q) = [method |-> "upload", removeRemote |-> TRUE]
         /\ (l = "dir" /\ r = "file") => TaskOf(Cur, q) = [method |-> "sync", removeRemote |-> TRUE]
         /\ (r = l \/ r = "null") => ~TaskOf(Cur, q).removeRemote

C10_Witness ==
  \E q \in DOMAIN proj :
    /\ Classified(q) /\ proj[q].local = "dir" /\ RemoteStatus0(q) = "file"
    /\ TaskOf(Cur, q).removeRemote
    /\ \E c \in DOMAIN proj : Classified(c) /\ Parent(c) = q /\ proj[c].local = "file"

\* C11: in a non-preview run no child is uploaded into a remote directory that
\* does not exist: while the fastPut of an entry below a subdirectory is in
\* flight, the remote directory of its parent exists (stated for the runs whose
\* remote root directory exists).
C11_ParentCreatedFirst ==
  (~dryRun /\ Root \in DOMAIN remote0) =>
    \A q \in DOMAIN up :
      (up[q] = "fastPut" /\ Parent(q) # Root) => IsDir(remote, Parent(q))

\* C12 as stated: in a preview run sync() is called on every classified entry that
\* is physically a directory on the local side.
C12_PreviewEveryPhysicalDir ==
  dryRun =>
    \A q \in DOMAIN proj :
      (Classified(q) /\ q \in DOMAIN local /\ local[q] = "dir") => q \in DOMAIN sy

\* C12 as amended: in a preview run sync() is called, once, on exactly the
\* classified entries whose local status is "dir" (a local directory that is not
\* itself excluded), whatever its contents; an excluded directory has the status
\* "ignored" and is not traversed. When the preview resolves, the level of every
\* such directory has been scanned and reported.
C12_PreviewRecursesDirs ==
  dryRun =>
    \A q \in DOMAIN proj :
      Classified(q) =>
        /\ (proj[q].local = "dir") <=> (q \in DOMAIN sy)
        /\ Count(issued, <<"sync", q>>) = (IF proj[q].local = "dir" THEN 1 ELSE 0)
        /\ (startPromise = "resolved" /\ proj[q].local = "dir") => sy[q] = "ops"

C12_Witness ==
  /\ dryRun /\ startPromise = "resolved"
  /\ \E q \in DOMAIN proj :
       /\ Classified(q) /\ proj[q].local = "dir" /\ sy[q] = "ops"
       /\ Entries(Cur, q) # {}
       /\ \A c \in Entries(Cur, q) : proj[c].local = "ignored"

\* C13: when the readdir of buildProject(p) fails with code 2 the scan resolves
\* (sync(p) goes on to project.forEach) with a map of exactly the local entries
\* of p, each with its local status and no remote type, and no stat is sent for
\* any of them; when the readdir fails with another error sync(p) rejects.
C13_NotFoundIsEmpty ==
  \A p \in DOMAIN listed :
    /\ listed[p] = "enoent" =>
         /\ sy[p] = "ops"
         /\ Entries(Cur, p) = Kids(local, p)
         /\ \A q \in Entries(Cur, p) :
              /\ proj[q] = [local |-> LocalStatus(q), remote |-> "null"]
              /\ q \notin pend
              /\ Count(issued, <<"stat", q>>) = 0
    /\ listed[p] = "error" => sy[p] = "rejected"

C13_Witness ==
  /\ \E p \in DOMAIN listed :
       listed[p] = "enoent" /\ Cardinality(Kids(local, p)) = 2 /\ sy[p] = "ops"

\* C14: when a non-preview run of the same trees and exclusions, met by no
\* transport failure, has resolved, the preview run made before it resolved too
\* and reported, for every entry the non-preview run classified, the task
\* (method and removal flag) the non-preview run computed.
C14_PreviewSameDecisions ==
  (run = 3 /\ fails = 0 /\ conn = "ended" /\ startPromise = "resolved") =>
    /\ prev.result = "resolved"
    /\ \A q \in DOMAIN proj :
         Classified(q) => (q \in DOMAIN prev.tasks /\ prev.tasks[q] = TaskOf(Cur, q))

\* C15: whenever the promise of sync(p) is resolved, every call started for an
\* entry of level p or below it has completed: each removeRemote and each upload
\* has resolved, each sub-level sync has run its project.forEach and is resolved
\* itself, and no stat of buildProject is still in flight below p.
C15_LevelWaitsForActions ==
  \A p \in DOMAIN sy :
    SyncState(Cur, p) = "resolved" =>
      /\ \A c \in DOMAIN rm : IsUnder(c, p) => rm[c] = "done"
      /\ \A c \in DOMAIN up : IsUnder(c, p) => up[c] = "done"
      /\ \A c \in DOMAIN sy : IsUnder(c, p) => (sy[c] = "ops" /\ SyncState(Cur, c) = "resolved")
      /\ \A c \in pend : ~IsUnder(c, p)

C15_Witness ==
  /\ ~dryRun /\ SyncState(Cur, Root) = "resolved"
  /\ \E c \in DOMAIN rm : rm[c] = "done"
  /\ \E c \in DOMAIN up : up[c] = "done"
  /\ \E c \in DOMAIN sy : c # Root /\ sy[c] = "ops"

\* C16: when a non-preview run has resolved, upload() was called once and one
\* fastPut was sent for every local file that is neither excluded nor beneath an
\* excluded directory, and the file is on the remote side; for a file that is
\* excluded or beneath an excluded directory no upload was called and no
\* fastPut was sent.
C16_UploadedExactlyOnce ==
  (startPromise = "resolved" /\ ~dryRun) =>
    \A q \in DOMAIN local :
      local[q] = "file" =>
        IF Excluded(q)
        THEN Count(issued, <<"upload", q>>) = 0 /\ Count(issued, <<"fastPut", q>>) = 0
        ELSE /\ Count(issued, <<"upload", q>>) = 1
             /\ Count(issued, <<"fastPut", q>>) = 1
             /\ q \in DOMAIN remote /\ remote[q] = "file"

C16_Witness ==
  /\ startPromise = "resolved" /\ ~dryRun
  /\ \E q \in DOMAIN local : local[q] = "file" /\ Len(q) = 2 /\ Excluded(Parent(q))
  /\ \E q \in DOMAIN local : local[q] = "file" /\ ~Excluded(q) /\ q \in DOMAIN remote

\* C17: removeRemote deletes bottom-up. While the rmdir of q is in flight, a
\* removeRemote was called for every child the run found in q, each of them has
\* resolved, and q is empty on the remote side; once removeRemote(q) has resolved
\* nothing that was below q is left, and q itself is absent until the upload that
\* follows the removal has put a file there.
C17_RemoveBottomUp ==
  \A q \in DOMAIN rm :
    /\ rm[q] = "rmdir" =>
         /\ Kids(remote0, q) \subseteq RmKids(Cur, q)
         /\ \A c \in RmKids(Cur, q) : rm[c] = "done"
         /\ Kids(remote, q) = {}
    /\ rm[q] = "done" =>
         /\ \A c \in DOMAIN remote : ~(IsUnder(c, q) /\ c # q)
         /\ q \in DOMAIN remote => (q \in DOMAIN up /\ up[q] = "done")
         /\ Count(issued, <<"rmdir", q>>) + Count(issued, <<"unlink", q>>) = 1

C17_Witness ==
  \E q \in DOMAIN rm :
    /\ rm[q] = "done" /\ q \notin DOMAIN remote
    /\ Count(issued, <<"rmdir", q>>) = 1
    /\ Cardinality(RmKids(Cur, q)) = 2

\* Some request of the run has been sent and its callback has not run yet.
InFlight ==
  \/ \E q \in DOMAIN sy : sy[q] \in {"sftp", "readdir"}
  \/ pend # {}
  \/ \E q \in DOMAIN rm : rm[q] \in {"sftp", "stat", "readdir", "unlink", "rmdir"}
  \/ \E q \in DOMAIN up : up[q] \in {"sftp", "fastPut", "mkdir"}

\* C18: a run whose connection is ready never gets stuck: as long as the promise
\* of the top-level sync() is pending some request is in flight whose callback
\* will move the run on, so the promise of start() settles and client.end() is
\* called after finitely many callbacks.
C18_NeverStuck ==
  (conn = "ready" /\ SyncState(Cur, Root) = "pending") => InFlight

\* C19: once start() has called client.end() no request of the run is in flight:
\* no sibling removal, upload or sub-level sync is still waiting for a callback.
C19_NothingInFlightAtEnd == conn = "ended" => ~InFlight

\* removeRemote(q) has been called and has not settled.
Removing(q) ==
  q \in DOMAIN rm /\ rm[q] \in {"sftp", "stat", "readdir", "children", "unlink", "rmdir"}

\* Another action is working on remote path c: an upload of c, a listing of c by
\* sync(c), or a stat of c by buildProject.
Touching(c) ==
  \/ c \in DOMAIN up /\ up[c] \in {"sftp", "fastPut", "mkdir", "children"}
  \/ c \in DOMAIN sy /\ sy[c] \in {"sftp", "readdir", "stat"}
  \/ c \in pend

\* C20: in a non-preview run, while the removal of a path is in flight no other
\* action uploads to, creates, lists or stats that path or a path below it, in
\* any interleaving of the callbacks.
C20_NoRaceWithRemoval ==
  ~dryRun =>
    \A q \in DOMAIN rm :
      Removing(q) => \A c \in DOMAIN up \cup DOMAIN sy \cup pend : IsUnder(c, q) => ~Touching(c)

C20_Witness ==
  /\ ~dryRun
  /\ \E q \in DOMAIN rm, c \in DOMAIN up :
       /\ Removing(q) /\ rm[q] \in {"unlink", "rmdir"}
       /\ Parent(c) = Parent(q) /\ up[c] = "fastPut"

====
